---- MODULE Spec2Model ----
(***************************************************************************)
(* Model of the Codimension pylint plugin driver                           *)
(* (src/cdmplugins/pylint/pylintdriver.py): the PylintDriver object, the   *)
(* child pylint process it runs, and the report parser that lives in       *)
(* PylintDriver.__finished.                                                *)
(*                                                                         *)
(* Text is modelled as TLA+ strings, handled character by character with   *)
(* Python's 0-based indices.  Python's None is the empty tuple and a       *)
(* present value v is the one-element tuple <<v>>.                         *)
(***************************************************************************)
EXTENDS Integers, Sequences, FiniteSets, TLC

(***************************************************************************)
(* Python values and string primitives                                     *)
(***************************************************************************)
None == <<>>

Some(v) == <<v>>

Min(a, b) == IF a < b THEN a ELSE b

Max(a, b) == IF a > b THEN a ELSE b

\* s[i], and the empty string past the end of s
CharAt(s, i) == IF i < Len(s) THEN SubSeq(s, i + 1, i + 1) ELSE ""

\* a slice bound as Python normalises it: negative counts from the end
SliceBound(s, x) == IF x < 0 THEN Max(x + Len(s), 0) ELSE Min(x, Len(s))

\* s[a:b]
Slice(s, a, b) ==
    LET lo == SliceBound(s, a)
        hi == SliceBound(s, b)
    IN  IF lo >= hi THEN "" ELSE SubSeq(s, lo + 1, hi)

\* s[a:]
SliceFrom(s, a) == Slice(s, a, Len(s))

\* s.startswith(prefix)
startswith(s, prefix) ==
    /\ Len(prefix) <= Len(s)
    /\ SubSeq(s, 1, Len(prefix)) = prefix

\* the least element of a non-empty set of integers
Least(S) == CHOOSE i \in S : \A j \in S : i <= j

\* the greatest element of a non-empty set of integers
Greatest(S) == CHOOSE i \in S : \A j \in S : i >= j

\* s.find(sub, start): the lowest index >= start where sub occurs, else -1
find(s, sub, start) ==
    LET hits == {i \in start .. Len(s) - Len(sub) :
                    SubSeq(s, i + 1, i + Len(sub)) = sub}
    IN  IF hits = {} THEN -1 ELSE Least(hits)

Whitespace == {" ", "\t", "\n", "\r", "\f"}

RECURSIVE lstrip(_)
lstrip(s) ==
    IF Len(s) > 0 /\ CharAt(s, 0) \in Whitespace THEN lstrip(SliceFrom(s, 1))
    ELSE s

RECURSIVE rstrip(_)
rstrip(s) ==
    IF Len(s) > 0 /\ CharAt(s, Len(s) - 1) \in Whitespace
    THEN rstrip(Slice(s, 0, Len(s) - 1))
    ELSE s

\* s.strip()
strip(s) == lstrip(rstrip(s))

\* s.split(sep)[0]
SplitFirst(s, sep) ==
    LET p == find(s, sep, 0) IN IF p = -1 THEN s ELSE Slice(s, 0, p)

LineBreaks == {"\n", "\r", "\f"}

RECURSIVE splitlinesFrom(_, _)
\* the lines of s from index cur on, where a line begins
splitlinesFrom(s, cur) ==
    IF cur >= Len(s) THEN <<>>
    ELSE
    LET breaks == {i \in cur .. Len(s) - 1 : CharAt(s, i) \in LineBreaks}
    IN  IF breaks = {} THEN <<SliceFrom(s, cur)>>
        ELSE
        LET i == Least(breaks)
            next == IF CharAt(s, i) = "\r" /\ CharAt(s, i + 1) = "\n"
                    THEN i + 2 ELSE i + 1
        IN  <<Slice(s, cur, i)>> \o splitlinesFrom(s, next)

\* s.splitlines()
splitlines(s) == splitlinesFrom(s, 0)

Digits == {"0", "1", "2", "3", "4", "5", "6", "7", "8", "9"}

DigitValue(c) ==
    CASE c = "0" -> 0 [] c = "1" -> 1 [] c = "2" -> 2 [] c = "3" -> 3
      [] c = "4" -> 4 [] c = "5" -> 5 [] c = "6" -> 6 [] c = "7" -> 7
      [] c = "8" -> 8 [] c = "9" -> 9

RECURSIVE IsDigitString(_)
\* digits, with single underscores allowed between two digits
IsDigitString(s) ==
    /\ Len(s) > 0
    /\ CharAt(s, 0) \in Digits
    /\ \/ Len(s) = 1
       \/ IsDigitString(SliceFrom(s, 1))
       \/ /\ Len(s) > 2
          /\ CharAt(s, 1) = "_"
          /\ IsDigitString(SliceFrom(s, 2))

RECURSIVE DigitStringValue(_, _)
DigitStringValue(s, acc) ==
    IF Len(s) = 0 THEN acc
    ELSE IF CharAt(s, 0) = "_" THEN DigitStringValue(SliceFrom(s, 1), acc)
    ELSE DigitStringValue(SliceFrom(s, 1), 10 * acc + DigitValue(CharAt(s, 0)))

\* the text int() sees once blanks and the sign are taken off
IntBody(s) ==
    LET t == strip(s)
    IN  IF Len(t) > 0 /\ CharAt(t, 0) \in {"+", "-"} THEN SliceFrom(t, 1) ELSE t

\* int(s) does not raise ValueError
IntParses(s) == IsDigitString(IntBody(s))

\* int(s), for a string on which int() does not raise
int(s) ==
    LET t == strip(s)
        v == DigitStringValue(IntBody(s), 0)
    IN  IF Len(t) > 0 /\ CharAt(t, 0) = "-" THEN 0 - v ELSE v

\* s.rfind(sub): the highest index where sub occurs, else -1
rfind(s, sub) ==
    LET hits == {i \in 0 .. Len(s) - Len(sub) :
                    SubSeq(s, i + 1, i + Len(sub)) = sub}
    IN  IF hits = {} THEN -1 ELSE Greatest(hits)

RECURSIVE stripTrailingSep(_)
stripTrailingSep(s) ==
    IF Len(s) > 0 /\ CharAt(s, Len(s) - 1) = "/"
    THEN stripTrailingSep(Slice(s, 0, Len(s) - 1))
    ELSE s

\* os.path.basename(p)
basename(p) == SliceFrom(p, rfind(p, "/") + 1)

\* os.path.dirname(p)
dirname(p) ==
    LET head == Slice(p, 0, rfind(p, "/") + 1)
    IN  IF stripTrailingSep(head) = "" THEN head ELSE stripTrailingSep(head)

(***************************************************************************)
(* The report parser of PylintDriver.__finished                            *)
(***************************************************************************)
Categories == {"C", "R", "W", "E"}

modulePattern == "************* Module "

ratePattern == "Your code has been rated at "

prevRunPattern == "previous run: "

RECURSIVE CategoryRun(_, _)
\* how many characters of [CRWE] the line has from index i on
CategoryRun(line, i) ==
    IF CharAt(line, i) \in Categories THEN 1 + CategoryRun(line, i + 1) ELSE 0

\* a match on the first character and a colon anywhere in the line
MSG_REGEXP_FirstLetterOnly(line) ==
    /\ CharAt(line, 0) \in Categories
    /\ find(line, ":", 0) # -1

\* re.match(r'^[CRWE]+([0-9]{4})?:', line)
MSG_REGEXP(line) ==
    LET k == CategoryRun(line, 0)
    IN  /\ k >= 1
        /\ \/ CharAt(line, k) = ":"
           \/ /\ \A j \in k .. k + 3 : CharAt(line, j) \in Digits
              /\ CharAt(line, k + 4) = ":"

\* int(lineNo.split(',')[0]) does not raise
LineNumberParses(lineNo) == IntParses(SplitFirst(lineNo, ","))

\* the digits of the token without its sign
LineNumberOf_Unsigned(lineNo) ==
    DigitStringValue(IntBody(SplitFirst(lineNo, ",")), 0)

\* int(lineNo.split(',')[0])
LineNumberOf(lineNo) == int(SplitFirst(lineNo, ","))

\* the message text without the removal of the leading colon
MessageOf_KeepColon(line, colonPos2) == strip(SliceFrom(line, colonPos2 + 1))

\* the message text: what follows the second colon, stripped, and stripped
\* again of one leading colon
MessageOf(line, colonPos2) ==
    LET message == strip(SliceFrom(line, colonPos2 + 1))
    IN  IF startswith(message, ":") THEN strip(SliceFrom(message, 1))
        ELSE message

\* the last of the category letters in place of the first
BucketOf_LastLetter(line) == CharAt(line, CategoryRun(line, 0) - 1)

\* the key of the list the item is appended to: line[0]
BucketOf(line) == CharAt(line, 0)

\* The body of the line loop for one line that is not a module header:
\* "skip" for a line that is passed over, "raise" where int() raises
\* ValueError, else the item and the bucket it is appended to.
ParseLine(line, module) ==
    IF ~MSG_REGEXP(line) THEN [kind |-> "skip"]
    ELSE
    LET colonPos1 == find(line, ":", 0)
    IN  IF colonPos1 = -1 THEN [kind |-> "skip"]
        ELSE
        LET msgId     == Slice(line, 0, colonPos1)
            colonPos2 == find(line, ":", colonPos1 + 1)
        IN  IF colonPos2 = -1 THEN [kind |-> "skip"]
            ELSE
            LET lineNo == strip(Slice(line, colonPos1 + 1, colonPos2))
            IN  IF lineNo = "" THEN [kind |-> "skip"]
                ELSE IF ~LineNumberParses(lineNo) THEN [kind |-> "raise"]
                ELSE [kind   |-> "item",
                      bucket |-> BucketOf(line),
                      item   |-> <<module, LineNumberOf(lineNo),
                                   MessageOf(line, colonPos2), msgId>>]

RECURSIVE ParseLines_HeaderIgnored(_, _, _, _)
\* The line loop with header lines that do not change the module name.
ParseLines_HeaderIgnored(lines, i, module, buckets) ==
    IF i > Len(lines) THEN [raised |-> FALSE, buckets |-> buckets]
    ELSE IF startswith(lines[i], modulePattern)
    THEN ParseLines_HeaderIgnored(lines, i + 1, module, buckets)
    ELSE
    LET r == ParseLine(lines[i], module)
    IN  CASE r.kind = "skip"  ->
                ParseLines_HeaderIgnored(lines, i + 1, module, buckets)
          [] r.kind = "raise" -> [raised |-> TRUE, buckets |-> buckets]
          [] r.kind = "item"  ->
                ParseLines_HeaderIgnored(lines, i + 1, module,
                    [buckets EXCEPT ![r.bucket] = Append(@, r.item)])

RECURSIVE ParseLines(_, _, _, _)
\* The line loop from line i on: the buckets with the items appended, and
\* whether the loop was left by an exception.
ParseLines(lines, i, module, buckets) ==
    IF i > Len(lines) THEN [raised |-> FALSE, buckets |-> buckets]
    ELSE IF startswith(lines[i], modulePattern)
    THEN ParseLines(lines, i + 1,
                    SliceFrom(lines[i], Len(modulePattern)), buckets)
    ELSE
    LET r == ParseLine(lines[i], module)
    IN  CASE r.kind = "skip"  -> ParseLines(lines, i + 1, module, buckets)
          [] r.kind = "raise" -> [raised |-> TRUE, buckets |-> buckets]
          [] r.kind = "item"  ->
                ParseLines(lines, i + 1, module,
                           [buckets EXCEPT ![r.bucket] = Append(@, r.item)])

EmptyBuckets == [c \in Categories |-> <<>>]

\* The 'Rate' and 'PreviousRunRate' entries found in the output
ParseRate(out) ==
    LET ratePos == find(out, ratePattern, 0)
    IN  IF ~(ratePos > 0) THEN <<>>
        ELSE
        LET rateEndPos == find(out, "/10", ratePos)
        IN  IF ~(rateEndPos > 0) THEN <<>>
            ELSE
            LET rate       == Slice(out, ratePos + Len(ratePattern), rateEndPos)
                prevRunPos == find(out, prevRunPattern, rateEndPos)
            IN  IF ~(prevRunPos > 0) THEN "Rate" :> rate
                ELSE
                LET prevRunEndPos == find(out, "/10", prevRunPos)
                    previous == Slice(out, prevRunPos + Len(prevRunPattern),
                                      prevRunEndPos)
                IN  "Rate" :> rate @@ "PreviousRunRate" :> previous

sysExecutable == "python"

\* the exit code replaced by -1 for a crashed child
BaseResults_CrashCode(exitCode, exitStatus, fname, timestamp, argv) ==
    "ExitCode" :> (IF exitStatus = "CrashExit" THEN 0 - 1 ELSE exitCode)
    @@ "ExitStatus" :> exitStatus
    @@ "FileName" :> fname
    @@ "Timestamp" :> timestamp
    @@ "CommandLine" :> <<sysExecutable>> \o argv

\* the dictionary __finished starts from
BaseResults(exitCode, exitStatus, fname, timestamp, argv) ==
    "ExitCode" :> exitCode
    @@ "ExitStatus" :> exitStatus
    @@ "FileName" :> fname
    @@ "Timestamp" :> timestamp
    @@ "CommandLine" :> <<sysExecutable>> \o argv

\* the error text with the test of stderr inverted
ProcessErrorText_Inverted(err, fname) ==
    IF err = ""
    THEN "pylint error:\n" \o err
    ELSE "pylint produced no output (finished abruptly) for " \o fname

\* the 'ProcessError' text of a run that wrote nothing to stdout
ProcessErrorText(err, fname) ==
    IF err # ""
    THEN "pylint error:\n" \o err
    ELSE "pylint produced no output (finished abruptly) for " \o fname

\* What one call of __finished does with the buffers it finds: whether an
\* exception leaves it before sigFinished is emitted, and the dictionary it
\* emits otherwise.  Adding a list to None raises TypeError.
FinishedResults(exitCode, exitStatus, fname, timestamp, argv, out, err) ==
    IF argv = None THEN [raised |-> TRUE]
    ELSE
    LET results ==
            BaseResults(exitCode, exitStatus, fname, timestamp, argv[1])
    IN  IF out = ""
        THEN [raised  |-> FALSE,
              results |-> results @@
                          "ProcessError" :> ProcessErrorText(err, fname)]
        ELSE
        LET parsed == ParseLines(splitlines(out), 1, "", EmptyBuckets)
        IN  IF parsed.raised THEN [raised |-> TRUE]
            ELSE [raised  |-> FALSE,
                  results |-> results @@ parsed.buckets
                              @@ "StdOut" :> out @@ "StdErr" :> err
                              @@ ParseRate(out)]

(***************************************************************************)
(* The IDE around the driver: the loaded project and the files on disk     *)
(***************************************************************************)
sep == "/"

\* PylintDriver.getPylintrc(ide, fileName); fileName is None or Some(path)
RECURSIVE firstExisting(_, _, _)
firstExisting(files, candidates, i) ==
    IF i > Len(candidates) THEN None
    ELSE IF candidates[i] \in files THEN Some(candidates[i])
    ELSE firstExisting(files, candidates, i + 1)

\* getPylintrc looking into the project directory before the file's
getPylintrc_ProjectFirst(env, fname) ==
    LET names == <<"pylintrc", ".pylintrc">>
        dirs0 == IF env.loaded THEN <<env.projectDir>> ELSE <<>>
        dirs  == IF fname # None /\ fname[1] # ""
                 THEN Append(dirs0, dirname(fname[1]) \o sep) ELSE dirs0
        candidates ==
            [k \in 1 .. 2 * Len(dirs) |->
                dirs[(k + 1) \div 2] \o names[2 - (k % 2)]]
    IN  firstExisting(env.files, candidates, 1)

getPylintrc(env, fname) ==
    LET names == <<"pylintrc", ".pylintrc">>
        dirs0 == IF fname # None /\ fname[1] # ""
                 THEN <<dirname(fname[1]) \o sep>> ELSE <<>>
        dirs  == IF env.loaded THEN Append(dirs0, env.projectDir) ELSE dirs0
        candidates ==
            [k \in 1 .. 2 * Len(dirs) |->
                dirs[(k + 1) \div 2] \o names[2 - (k % 2)]]
    IN  firstExisting(env.files, candidates, 1)

RECURSIVE initHookCode(_, _)
\* the loop of getInitHook over the reversed list, from its element i on
initHookCode(importDirs, i) ==
    IF i > Len(importDirs) THEN ""
    ELSE ";sys.path.insert(0,\"" \o importDirs[i] \o "\")"
         \o initHookCode(importDirs, i + 1)

reverse(seq) == [k \in 1 .. Len(seq) |-> seq[Len(seq) + 1 - k]]

\* PylintDriver.getInitHook()
getInitHook(env) ==
    IF ~env.loaded THEN None
    ELSE IF env.importDirs = <<>> THEN None
    ELSE Some("import sys" \o initHookCode(reverse(env.importDirs), 1))

\* The statements of an init hook after 'import sys', as the child's
\* interpreter reads them from position pos on: each is
\* ;sys.path.insert(0,"...") with the literal closed by the next double
\* quote.  Some(the literals, in order), or None for a syntax error.
\* Directory names with a backslash are not among the inputs.
RECURSIVE hookLiterals(_, _, _)
hookLiterals(code, pos, literals) ==
    LET insert == ";sys.path.insert(0,\""
        start  == pos + Len(insert)
        close  == find(code, "\"", start)
    IN  IF pos = Len(code) THEN Some(literals)
        ELSE IF Slice(code, pos, start) # insert THEN None
        ELSE IF close = 0 - 1 THEN None
        ELSE IF Slice(code, close + 1, close + 2) # ")" THEN None
        ELSE hookLiterals(code, close + 2,
                          Append(literals, Slice(code, start, close)))

RECURSIVE insertAll(_, _, _)
\* sys.path.insert(0, literal) for the literals from the i-th on
insertAll(literals, i, path) ==
    IF i > Len(literals) THEN path
    ELSE insertAll(literals, i + 1, <<literals[i]>> \o path)

\* sys.path of a child before any init hook
BaseSysPath == <<"", "/usr/lib/python3">>

\* sys.path after the child has executed the code given as --init-hook:
\* code that does not compile executes nothing
execInitHook(code, path) ==
    LET literals ==
            IF startswith(code, "import sys")
            THEN hookLiterals(code, Len("import sys"), <<>>) ELSE None
    IN  IF literals = None THEN path
        ELSE insertAll(literals[1], 1, path)

\* sys.path of the child started with the arguments
childSysPath(argv) ==
    LET at == { k \in 1 .. Len(argv) - 1 : argv[k] = "--init-hook" }
    IN  IF at = {} THEN BaseSysPath
        ELSE execInitHook(argv[Least(at) + 1], BaseSysPath)

\* the argument list with the options first and the base name last
BuildArgs_BasenameLast(env, fname) ==
    LET base == <<"-m", "pylint", "--output-format", "text", "--msg-template",
                  "{msg_id}:{line:3d},{column}: {obj}: {msg}">>
        rcfile == getPylintrc(env, Some(fname))
        withRc == IF rcfile # None
                  THEN base \o <<"--rcfile", rcfile[1]>> ELSE base
        initHook == getInitHook(env)
        withHook == IF initHook # None
                    THEN withRc \o <<"--init-hook", initHook[1]>> ELSE withRc
    IN  withHook \o <<basename(fname)>>

\* the argument list start() builds
BuildArgs(env, fname) ==
    LET base == <<"-m", "pylint", "--output-format", "text", "--msg-template",
                  "{msg_id}:{line:3d},{column}: {obj}: {msg}",
                  basename(fname)>>
        rcfile == getPylintrc(env, Some(fname))
        withRc == IF rcfile # None
                  THEN base \o <<"--rcfile", rcfile[1]>> ELSE base
        initHook == getInitHook(env)
    IN  IF initHook # None
        THEN withRc \o <<"--init-hook", initHook[1]>> ELSE withRc

(***************************************************************************)
(* Bounds and inputs                                                       *)
(***************************************************************************)
\* how many times start() may try to launch a child
MaxRuns == 2

FileNames == {"/p/a.py", "/q/b.py"}

\* the encoding argument of start(): None or a codec name
Encodings == {None, Some("latin-1")}

\* the IDE states the driver is run in
Ides ==
    { [loaded |-> FALSE, projectDir |-> "", importDirs |-> <<>>,
       files |-> {"/q/.pylintrc"}],
      [loaded |-> TRUE, projectDir |-> "/p/", importDirs |-> <<"/i1", "/i2">>,
       files |-> {"/p/pylintrc", "/p/.pylintrc"}] }

RECURSIVE IntToStr(_)
IntToStr(n) ==
    IF n < 10 THEN SubSeq("0123456789", n + 1, n + 1)
    ELSE IntToStr(n \div 10) \o SubSeq("0123456789", (n % 10) + 1, (n % 10) + 1)

\* '{line:3d}': the number right-aligned in three columns
Format3d(n) ==
    LET t == IntToStr(n)
    IN  IF Len(t) >= 3 THEN t ELSE SubSeq("   ", 1, 3 - Len(t)) \o t

\* a report line as pylint writes it for the message template start() passes
TemplateLine(t) ==
    t.msgId \o ":" \o Format3d(t.line) \o "," \o IntToStr(t.column)
    \o ": " \o t.obj \o ": " \o t.msg

TemplateCases ==
    { [msgId |-> "C0103", line |-> 12, column |-> 0,
       obj |-> "foo", msg |-> "bad name"],
      [msgId |-> "W0611", line |-> 3, column |-> 0,
       obj |-> "", msg |-> "unused import"],
      [msgId |-> "R0801", line |-> 0, column |-> 0,
       obj |-> "", msg |-> "similar lines"],
      [msgId |-> "E1101", line |-> 104, column |-> 8,
       obj |-> "K.f", msg |-> "no member: x"] }

HeaderM == "************* Module m\n"

HeaderN == "************* Module n\n"

RateLine ==
    "Your code has been rated at 8.50/10 (previous run: 7.00/10, +1.50)\n"

\* what a child writes to its stdout, in the pieces the driver reads it
StdoutScripts ==
    { <<>>,
      <<HeaderM \o "C0103:  12,0", ": foo: bad name\n", "\n" \o RateLine>>,
      <<RateLine>>,
      <<HeaderM \o "C0103:  12,0: foo: bad name\nE: abc: x\n",
        "W0611:  3,0: : unused import\n">>,
      <<"C0103: ,5: x\n">>,
      <<"E0001: -3,0: : y\n", "W0702: +7,1: f: z\n">>,
      <<"Warning: 1: deprecated\n",
        " C0103:  1,0: x\n\nYour code has been rated at 10.00/10\n">>,
      <<"W0612: : no location\nE0602:only one colon\n",
        "W0611:  3,0: : unused import\n">>,
      <<HeaderM \o "C0103:  1,0: a: b\nR0903:  2,0: K: few\n",
        HeaderN \o "W0611:  3,0: : unused\nE1101:  4,4: f: no member\n"
                \o "EC:  5,0: : odd\n">> }
    \cup { <<HeaderM \o TemplateLine(t) \o "\n">> : t \in TemplateCases }

\* what a child writes to its stderr
StderrScripts == { <<>>, <<"boom">> }

\* QProcess.ExitStatus
NormalExit == "NormalExit"

CrashExit == "CrashExit"

\* the exit codes of a child that exits by itself
ExitCodes == {0, 20}

\* the exit code reported for a killed child
KillCode == 9

(***************************************************************************)
(* PylintResultViewer                                                      *)
(***************************************************************************)
\* str() of an integer
str(n) == IF n < 0 THEN "-" \o IntToStr(0 - n) ELSE IntToStr(n)

\* PylintResultViewer.__updateButtons
updateButtons(v) ==
    [v EXCEPT
        !.clearEnabled = v.results # None,
        !.outputEnabled = /\ v.results # None
                          /\ \/ "StdOut" \in DOMAIN v.results[1]
                             \/ "StdErr" \in DOMAIN v.results[1]]

\* the widget as PylintResultViewer.__init__ builds it
NewViewer ==
    updateButtons(
        [results |-> None, clearEnabled |-> FALSE, outputEnabled |-> FALSE,
         tooltip |-> <<>>, noneVisible |-> TRUE, fileVisible |-> TRUE,
         rateVisible |-> TRUE, timestampVisible |-> TRUE,
         treeVisible |-> TRUE, filePath |-> None, rateText |-> "",
         timestampText |-> None, tree |-> <<>>,
         header |-> "Message"])

NoResultsTooltip == <<"No results available">>

\* clear() that keeps the rows of the tree
clear_KeepTree(v) ==
    [updateButtons([v EXCEPT !.results = None]) EXCEPT
        !.tooltip = NoResultsTooltip,
        !.noneVisible = TRUE,
        !.fileVisible = FALSE,
        !.rateVisible = FALSE,
        !.timestampVisible = FALSE,
        !.treeVisible = FALSE]

\* clear() that puts a placeholder row into the tree it leaves in place
clear_PlaceholderRow(v) ==
    [updateButtons([v EXCEPT !.results = None]) EXCEPT
        !.tooltip = NoResultsTooltip,
        !.noneVisible = TRUE,
        !.fileVisible = FALSE,
        !.rateVisible = FALSE,
        !.timestampVisible = FALSE,
        !.treeVisible = FALSE,
        !.tree = Append(v.tree, [title |-> "No results", summary |-> "",
                                 children |-> <<>>])]

\* PylintResultViewer.clear
clear(v) ==
    [updateButtons([v EXCEPT !.results = None]) EXCEPT
        !.tooltip = NoResultsTooltip,
        !.noneVisible = TRUE,
        !.fileVisible = FALSE,
        !.rateVisible = FALSE,
        !.timestampVisible = FALSE,
        !.treeVisible = FALSE,
        !.tree = <<>>]

\* the titles showResults populates, in its order
Titles == <<"Errors", "Warnings", "Refactoring", "Cosmetics">>

\* PylintResultViewer.__populateMessages: the top-level item added for a
\* title (none when the list is empty), with its children
populateMessages(results, title) ==
    LET items == results[SubSeq(title, 1, 1)]
        count == Len(items)
        suffix == IF count = 1 THEN "" ELSE "s"
    IN  IF count > 0
        THEN <<[title    |-> title,
                summary  |-> "(" \o str(count) \o " message" \o suffix \o ")",
                children |-> [k \in 1 .. count |->
                                 <<str(items[k][2]), items[k][4],
                                   items[k][3]>>]]>>
        ELSE <<>>

\* the number of messages __populateMessages returns, summed over the titles
totalMessages(results) ==
    Len(results["E"]) + Len(results["W"]) + Len(results["R"])
    + Len(results["C"])

\* the text showResults puts on the rate label
rateLabelText(results) ==
    IF "PreviousRunRate" \in DOMAIN results
    THEN " " \o results["Rate"] \o " (" \o results["PreviousRunRate"] \o ")"
         \o " "
    ELSE " " \o results["Rate"] \o " "

\* PylintResultViewer.showResults
showResults(v, results) ==
    LET c == clear(v)
        shown == updateButtons(
                     [c EXCEPT !.noneVisible = FALSE,
                               !.fileVisible = TRUE,
                               !.rateVisible = TRUE,
                               !.timestampVisible = TRUE,
                               !.treeVisible = TRUE,
                               !.results = Some(results)])
    IN  [shown EXCEPT
            !.tooltip = <<"pylint results for",
                          basename(results["FileName"]), "at",
                          results["Timestamp"]>>,
            !.filePath = Some(results["FileName"]),
            !.rateText = IF "Rate" \in DOMAIN results
                         THEN rateLabelText(results) ELSE shown.rateText,
            !.rateVisible = "Rate" \in DOMAIN results,
            !.timestampText = Some(results["Timestamp"]),
            !.tree = populateMessages(results, Titles[1])
                     \o populateMessages(results, Titles[2])
                     \o populateMessages(results, Titles[3])
                     \o populateMessages(results, Titles[4]),
            !.header = "Message (total messages: "
                       \o str(totalMessages(results)) \o ")"]

(***************************************************************************)
(* State                                                                   *)
(***************************************************************************)
VARIABLES
    ide,        \* the IDE state (project, files on disk)
    process,    \* self.__process: None or Some(id of the QProcess)
    args,       \* self.__args: None or Some(argument list)
    fileName,   \* self.__fileName
    encoding,   \* self.__encoding
    stdout,     \* self.__stdout
    stderr,     \* self.__stderr
    children,   \* ids of the child processes that are running
    script,     \* the running child: the file it analyses and what it
                \* writes to stdout and stderr, in pieces
    outPos,     \* pieces of script.out the child has written so far
    errPos,     \* pieces of script.err the child has written so far
    clock,      \* number of getLocaleDateTime() readings taken
    lastOp,     \* the operation the last step ran
    ret,        \* what start() returned, when the last step was a start()
    emitted,    \* the dictionary sigFinished carried in the last step, if any
    fin,        \* what the __finished call of the last step was given, if any
    nStarts,    \* QProcess objects created by start()
    nAccepted,  \* start() calls that returned None
    nExited,    \* children that have exited
    nPublished, \* sigFinished emissions
    nRaised,    \* __finished calls left by an exception
    editor,     \* self.ide.currentEditorWidget
    viewer,     \* the PylintResultViewer widget
    cursor,     \* depth of the QApplication override cursor stack
    statusBar,  \* the status bar message the last step showed, if any
    logged,     \* the error the last step logged, if any
    opened,     \* the file the last step opened in the IDE, if any
    discovered, \* what getPylintrc returned to __generate in the last step
    written,    \* the file generateRCFile redirected to in the last step
    latest,     \* the dictionary of the last emission, None after a clear
    lastRun,    \* the last emission with what __finished was given for it
    prevRun,    \* the emission before the last, likewise
    tabs,       \* the editor tabs in their order: the widget of each and
                \* its 'pylint' toolbar action, None or Some(enabled)
    current,    \* the place in tabs of the tab in front
    active      \* the plugin is activated

driverVars == <<ide, process, args, fileName, encoding, stdout, stderr,
                children, script, outPos, errPos, clock, lastOp, ret,
                emitted, fin, nStarts, nAccepted, nExited, nPublished,
                nRaised>>

pluginVars == <<editor, viewer, cursor, statusBar, logged, opened,
                discovered, written, latest, lastRun, prevRun, tabs,
                current, active>>

vars == <<driverVars, pluginVars>>

NoScript ==
    [cwd |-> "", sysPath |-> <<>>, file |-> "", out |-> <<>>, err |-> <<>>]

\* PylintDriver.isInProcess()
isInProcess == process # None

\* the message of start() for a driver that holds a process
BusyMessage == "Another pylint analysis is in progress"

\* os.path.isabs
isabs(path) == startswith(path, sep)

\* utils.fileutils.isPythonMime
isPythonMime(mime) == mime = "text/x-python"

SaveMessage == "Save changes before running pylint"

NeverSavedMessage ==
    "The new file has never been saved yet. Save it before running pylint"

\* __canRun answering a run in progress with the driver's busy message
canRun_BusyMessage(editorWidget) ==
    IF isInProcess THEN <<FALSE, Some(BusyMessage)>>
    ELSE IF editorWidget.type # "PlainTextEditor" THEN <<FALSE, None>>
    ELSE IF ~isPythonMime(editorWidget.mime) THEN <<FALSE, None>>
    ELSE IF editorWidget.modified THEN <<FALSE, Some(SaveMessage)>>
    ELSE IF ~isabs(editorWidget.fileName)
         THEN <<FALSE, Some(NeverSavedMessage)>>
    ELSE <<TRUE, None>>

\* __canRun without the test of isModified()
canRun_ModifiedAllowed(editorWidget) ==
    IF isInProcess THEN <<FALSE, None>>
    ELSE IF editorWidget.type # "PlainTextEditor" THEN <<FALSE, None>>
    ELSE IF ~isPythonMime(editorWidget.mime) THEN <<FALSE, None>>
    ELSE IF ~isabs(editorWidget.fileName)
         THEN <<FALSE, Some(NeverSavedMessage)>>
    ELSE <<TRUE, None>>

\* PylintPlugin.__canRun: <<canRun, message>>
canRun(editorWidget) ==
    IF isInProcess THEN <<FALSE, None>>
    ELSE IF editorWidget.type # "PlainTextEditor" THEN <<FALSE, None>>
    ELSE IF ~isPythonMime(editorWidget.mime) THEN <<FALSE, None>>
    ELSE IF editorWidget.modified THEN <<FALSE, Some(SaveMessage)>>
    ELSE IF ~isabs(editorWidget.fileName)
         THEN <<FALSE, Some(NeverSavedMessage)>>
    ELSE <<TRUE, None>>

\* the 'pylint' action of a tab as __addButton, __modificationChanged and
\* __fileTypeChanged leave it: enabled when __canRun says yes; a widget that
\* is no text editor has no such action
pylintAction(editorWidget) ==
    IF editorWidget.type = "PlainTextEditor"
    THEN Some(canRun(editorWidget)[1]) ELSE None

\* __switchToRunning: the action of every text editor tab is disabled
switchToRunning ==
    [i \in DOMAIN tabs |->
        IF tabs[i].action = None THEN tabs[i]
        ELSE [tabs[i] EXCEPT !.action = Some(FALSE)]]

\* __switchToIdle: the action of every text editor tab is set by what
\* __canRun says of the tab now that the process is released
switchToIdle ==
    [i \in DOMAIN tabs |->
        IF tabs[i].action = None THEN tabs[i]
        ELSE [tabs[i] EXCEPT
                 !.action = Some(\E w \in {tabs[i].widget} : canRun(w)[1]')]]

\* the editor widgets the user may have in front
Editors ==
    { [type |-> "PlainTextEditor", mime |-> "text/x-python",
       modified |-> FALSE, fileName |-> "/p/a.py", encoding |-> None],
      [type |-> "PlainTextEditor", mime |-> "text/x-python",
       modified |-> FALSE, fileName |-> "/q/b.py",
       encoding |-> Some("latin-1")],
      [type |-> "PlainTextEditor", mime |-> "text/x-python",
       modified |-> TRUE, fileName |-> "/p/a.py", encoding |-> None],
      [type |-> "PlainTextEditor", mime |-> "text/x-python",
       modified |-> FALSE, fileName |-> "unnamed1.py", encoding |-> None],
      [type |-> "PlainTextEditor", mime |-> "text/plain",
       modified |-> FALSE, fileName |-> "/p/notes.txt", encoding |-> None],
      [type |-> "PictureViewer", mime |-> "image/png",
       modified |-> FALSE, fileName |-> "/p/logo.png", encoding |-> None] }

\* the editor in front when the plugin is activated
FirstEditor ==
    [type |-> "PlainTextEditor", mime |-> "text/x-python",
     modified |-> FALSE, fileName |-> "/p/a.py", encoding |-> None]

\* the last step showed, logged, opened, discovered and wrote nothing
Quiet ==
    /\ statusBar' = None
    /\ logged' = None
    /\ opened' = None
    /\ discovered' = None
    /\ written' = None

\* PylintPlugin.activate: the viewer is created and cleared, the driver is
\* created and its sigFinished connected
PluginActivated ==
    /\ editor = FirstEditor
    /\ viewer = clear(NewViewer)
    /\ cursor = 0
    /\ statusBar = None
    /\ logged = None
    /\ opened = None
    /\ discovered = None
    /\ written = None
    /\ latest = None
    /\ lastRun = None
    /\ prevRun = None
    /\ tabs = <<[widget |-> FirstEditor, action |-> pylintAction(FirstEditor)]>>
    /\ current = 1
    /\ active = TRUE

\* PylintDriver.__init__, and the bookkeeping of the model at zero
DriverCreated ==
    /\ process = None
    /\ args = None
    /\ fileName = ""
    /\ encoding = ""
    /\ stdout = ""
    /\ stderr = ""
    /\ children = {}
    /\ script = NoScript
    /\ outPos = 0
    /\ errPos = 0
    /\ clock = 0
    /\ lastOp = "init"
    /\ ret = None
    /\ emitted = None
    /\ fin = None
    /\ nStarts = 0
    /\ nAccepted = 0
    /\ nExited = 0
    /\ nPublished = 0
    /\ nRaised = 0

Init ==
    /\ ide \in Ides
    /\ DriverCreated
    /\ PluginActivated

(***************************************************************************)
(* PylintDriver.start(fileName, encoding)                                  *)
(***************************************************************************)
FailedMessage == "pylint analysis failed to start"

\* the assignments of start() with the two buffers left as they are
StartSetup_KeepBuffers(fn, enc) ==
    /\ fileName' = fn
    /\ encoding' = IF enc = None THEN "utf-8" ELSE enc[1]
    /\ UNCHANGED <<stdout, stderr>>
    /\ args' = Some(BuildArgs(ide, fn))
    /\ nStarts' = nStarts + 1
    /\ lastOp' = "start"
    /\ emitted' = None
    /\ fin' = None
    /\ UNCHANGED <<ide, clock, nExited, nPublished, nRaised>>

\* the assignments of start() up to QProcess.start()
StartSetup(fn, enc) ==
    /\ fileName' = fn
    /\ encoding' = IF enc = None THEN "utf-8" ELSE enc[1]
    /\ stdout' = ""
    /\ stderr' = ""
    /\ args' = Some(BuildArgs(ide, fn))
    /\ nStarts' = nStarts + 1
    /\ lastOp' = "start"
    /\ emitted' = None
    /\ fin' = None
    /\ UNCHANGED <<ide, clock, nExited, nPublished, nRaised>>

\* start() without the early return: a second child is launched while the
\* first is running
StartBusy_Relaunch(fn, enc) ==
    /\ process # None
    /\ nStarts < MaxRuns
    /\ StartSetup(fn, enc)
    /\ process' = Some(nStarts + 1)
    /\ children' = children \cup {nStarts + 1}
    /\ script' = [script EXCEPT !.file = fn]
    /\ outPos' = 0
    /\ errPos' = 0
    /\ ret' = None
    /\ nAccepted' = nAccepted + 1

\* start() with the early return placed after the first assignments: the
\* file name, the encoding and the buffers are overwritten
StartBusy_Overwrite(fn, enc) ==
    /\ process # None
    /\ fileName' = fn
    /\ encoding' = IF enc = None THEN "utf-8" ELSE enc[1]
    /\ stdout' = ""
    /\ stderr' = ""
    /\ lastOp' = "start"
    /\ ret' = Some(BusyMessage)
    /\ emitted' = None
    /\ fin' = None
    /\ UNCHANGED <<ide, process, args, children, script, outPos, errPos,
                   clock, nStarts, nAccepted, nExited, nPublished, nRaised>>

\* start() while a process is held: the early return
StartBusy(fn, enc) ==
    /\ process # None
    /\ lastOp' = "start"
    /\ ret' = Some(BusyMessage)
    /\ emitted' = None
    /\ fin' = None
    /\ UNCHANGED <<ide, process, args, fileName, encoding, stdout, stderr,
                   children, script, outPos, errPos, clock, nStarts,
                   nAccepted, nExited, nPublished, nRaised>>

\* start() with waitForStarted() true: a child running the given script
StartLaunched(fn, enc, out, err) ==
    /\ process = None
    /\ nStarts < MaxRuns
    /\ StartSetup(fn, enc)
    /\ process' = Some(nStarts + 1)
    /\ children' = children \cup {nStarts + 1}
    \* the child runs in dirname(fileName) on the base name it is passed
    /\ script' = [cwd |-> dirname(fn),
                   sysPath |-> childSysPath(args'[1]),
                   file |-> dirname(fn) \o sep \o args'[1][7],
                   out |-> out, err |-> err]
    /\ outPos' = 0
    /\ errPos' = 0
    /\ ret' = None
    /\ nAccepted' = nAccepted + 1

\* start() with waitForStarted() false that keeps the QProcess it created
StartFailed_KeepProcess(fn, enc) ==
    /\ process = None
    /\ nStarts < MaxRuns
    /\ StartSetup(fn, enc)
    /\ process' = Some(nStarts + 1)
    /\ ret' = Some(FailedMessage)
    /\ UNCHANGED <<children, script, outPos, errPos, nAccepted>>

\* start() with waitForStarted() false
StartFailed(fn, enc) ==
    /\ process = None
    /\ nStarts < MaxRuns
    /\ StartSetup(fn, enc)
    /\ process' = None
    /\ ret' = Some(FailedMessage)
    /\ UNCHANGED <<children, script, outPos, errPos, nAccepted>>

(***************************************************************************)
(* The read handlers                                                       *)
(***************************************************************************)
\* __readStdOutput: the next piece the child wrote is appended to the buffer
ReadStdOutput ==
    /\ process # None
    /\ process[1] \in children
    /\ outPos < Len(script.out)
    /\ stdout' = stdout \o script.out[outPos + 1]
    /\ outPos' = outPos + 1
    /\ lastOp' = "readStdOutput"
    /\ ret' = None
    /\ emitted' = None
    /\ fin' = None
    /\ UNCHANGED <<ide, process, args, fileName, encoding, stderr, children,
                   script, errPos, clock, nStarts, nAccepted, nExited,
                   nPublished, nRaised>>

\* __readStdError
ReadStdError ==
    /\ process # None
    /\ process[1] \in children
    /\ errPos < Len(script.err)
    /\ stderr' = stderr \o script.err[errPos + 1]
    /\ errPos' = errPos + 1
    /\ lastOp' = "readStdError"
    /\ ret' = None
    /\ emitted' = None
    /\ fin' = None
    /\ UNCHANGED <<ide, process, args, fileName, encoding, stdout, children,
                   script, outPos, clock, nStarts, nAccepted, nExited,
                   nPublished, nRaised>>

(***************************************************************************)
(* PylintDriver.__finished(exitCode, exitStatus)                           *)
(***************************************************************************)
\* The child the driver holds exits and __finished runs up to its return or
\* to the exception that leaves it; args is set by the caller.
finished(exitCode, exitStatus) ==
    LET r == FinishedResults(exitCode, exitStatus, fileName, clock + 1,
                             args, stdout, stderr)
    IN  /\ children' = children \ {process[1]}
        /\ nExited' = nExited + 1
        /\ script' = NoScript
        /\ outPos' = 0
        /\ errPos' = 0
        /\ process' = None
        /\ clock' = clock + 1
        /\ fin' = Some([stdout |-> stdout, stderr |-> stderr,
                        exitCode |-> exitCode, exitStatus |-> exitStatus,
                        fileName |-> fileName, analysed |-> script.file,
                        raised |-> r.raised])
        /\ IF r.raised
           THEN /\ emitted' = None
                /\ nRaised' = nRaised + 1
                /\ nPublished' = nPublished
           ELSE /\ emitted' = Some(r.results)
                /\ nPublished' = nPublished + 1
                /\ nRaised' = nRaised
        /\ ret' = None
        /\ UNCHANGED <<ide, fileName, encoding, stdout, stderr, nStarts,
                       nAccepted>>

\* self.__args when __finished is over: reset after the emission only
ArgsAfterFinished(exitCode, exitStatus) ==
    IF FinishedResults(exitCode, exitStatus, fileName, clock + 1,
                       args, stdout, stderr).raised
    THEN args ELSE None

\* The QProcess.finished signal.  A child that exits by itself has written
\* its whole output, and Qt has delivered it, before the signal; a child
\* that crashes may leave any part of it unwritten.
Finished(exitCode, exitStatus) ==
    /\ process # None
    /\ process[1] \in children
    /\ exitStatus = NormalExit =>
           /\ outPos = Len(script.out)
           /\ errPos = Len(script.err)
    /\ finished(exitCode, exitStatus)
    /\ args' = ArgsAfterFinished(exitCode, exitStatus)
    /\ lastOp' = "finished"

(***************************************************************************)
(* PylintDriver.stop()                                                     *)
(***************************************************************************)
\* stop() that kills and releases without waitForFinished(): the child is
\* still there when stop() returns
StopRunning_NoWait ==
    /\ process # None
    /\ process[1] \in children
    /\ process' = None
    /\ args' = None
    /\ lastOp' = "stop"
    /\ ret' = None
    /\ emitted' = None
    /\ fin' = None
    /\ UNCHANGED <<ide, fileName, encoding, stdout, stderr, children, script,
                   outPos, errPos, clock, nStarts, nAccepted, nExited,
                   nPublished, nRaised>>

\* kill() and waitForFinished(): the child dies and __finished runs inside
\* the wait; then the process and the arguments are released
StopRunning ==
    /\ process # None
    /\ process[1] \in children
    /\ finished(KillCode, CrashExit)
    /\ args' = None
    /\ lastOp' = "stop"

\* stop() with no process held
StopIdle ==
    /\ process = None
    /\ lastOp' = "stop"
    /\ ret' = None
    /\ emitted' = None
    /\ fin' = None
    /\ UNCHANGED <<ide, process, args, fileName, encoding, stdout, stderr,
                   children, script, outPos, errPos, clock, nStarts,
                   nAccepted, nExited, nPublished, nRaised>>

(***************************************************************************)
(* The driver called directly: the plugin's widgets are left alone         *)
(***************************************************************************)
PluginIdle ==
    /\ Quiet
    /\ UNCHANGED <<editor, viewer, cursor, latest, lastRun,
                   prevRun, tabs, current, active>>

DriverStartBusy(fn, enc) == StartBusy(fn, enc) /\ PluginIdle

DriverStartLaunched(fn, enc, out, err) ==
    StartLaunched(fn, enc, out, err) /\ PluginIdle

DriverStartFailed(fn, enc) == StartFailed(fn, enc) /\ PluginIdle

DriverReadStdOutput == ReadStdOutput /\ PluginIdle

DriverReadStdError == ReadStdError /\ PluginIdle

DriverFinished(exitCode, exitStatus) ==
    Finished(exitCode, exitStatus) /\ PluginIdle

DriverStopRunning == StopRunning /\ PluginIdle

DriverStopIdle == StopIdle /\ PluginIdle

Next ==
    \/ \E fn \in FileNames, enc \in Encodings : DriverStartBusy(fn, enc)
    \/ \E fn \in FileNames, enc \in Encodings,
          out \in StdoutScripts, err \in StderrScripts :
            DriverStartLaunched(fn, enc, out, err)
    \/ \E fn \in FileNames, enc \in Encodings : DriverStartFailed(fn, enc)
    \/ DriverReadStdOutput
    \/ DriverReadStdError
    \/ \E code \in ExitCodes : DriverFinished(code, NormalExit)
    \/ DriverFinished(KillCode, CrashExit)
    \/ DriverStopRunning
    \/ DriverStopIdle

Spec == Init /\ [][Next]_vars

(***************************************************************************)
(* PylintPlugin: the handlers of the user's actions and of sigFinished     *)
(***************************************************************************)
\* a handler that leaves the driver as it is
DriverUntouched(op) ==
    /\ lastOp' = op
    /\ ret' = None
    /\ emitted' = None
    /\ fin' = None
    /\ UNCHANGED <<process, args, fileName, encoding, stdout, stderr,
                   children, script, outPos, errPos, clock, nStarts,
                   nAccepted, nExited, nPublished, nRaised>>

\* the user edits, saves or retypes the buffer in front, or replaces it by
\* another: another widget is the current one, and __modificationChanged,
\* __fileTypeChanged or __addButton sets its 'pylint' action
EditorChange(e) ==
    /\ e # editor
    /\ editor' = e
    /\ DriverUntouched("editor")
    /\ Quiet
    /\ tabs' = [tabs EXCEPT ![current] =
                    [widget |-> e,
                     action |-> IF active THEN pylintAction(e) ELSE None]]
    /\ UNCHANGED <<ide, viewer, cursor, latest, lastRun, prevRun, current,
                   active>>

\* PylintPlugin.__run when __canRun says no: the message, if there is one,
\* goes to the status bar
RunRefused ==
    /\ ~canRun(editor)[1]
    /\ statusBar' = canRun(editor)[2]
    /\ logged' = None
    /\ opened' = None
    /\ discovered' = None
    /\ written' = None
    /\ DriverUntouched("run")
    /\ UNCHANGED <<ide, editor, viewer, cursor, latest, lastRun,
                   prevRun, tabs, current, active>>

\* PylintPlugin.__run, start() returned None: __switchToRunning
RunLaunched(out, err) ==
    /\ canRun(editor)[1]
    /\ StartLaunched(editor.fileName, editor.encoding, out, err)
    /\ cursor' = cursor + 1
    /\ Quiet
    /\ tabs' = switchToRunning
    /\ UNCHANGED <<editor, viewer, latest, lastRun, prevRun, current,
                   active>>

\* PylintPlugin.__run, start() returned a message: it is logged
RunFailed ==
    /\ canRun(editor)[1]
    /\ StartFailed(editor.fileName, editor.encoding)
    /\ logged' = ret'
    /\ statusBar' = None
    /\ opened' = None
    /\ discovered' = None
    /\ written' = None
    /\ UNCHANGED <<editor, viewer, cursor, latest, lastRun,
                   prevRun, tabs, current, active>>

\* PylintPlugin.__pylintFinished, with __switchToIdle
pylintFinished(results) ==
    LET error == IF "ProcessError" \in DOMAIN results
                 THEN Some(results["ProcessError"]) ELSE None
    IN  /\ cursor' = IF cursor > 0 THEN cursor - 1 ELSE 0
        /\ tabs' = switchToIdle
        /\ IF error # None /\ error[1] # ""
           THEN /\ logged' = error
                /\ viewer' = viewer
           ELSE /\ logged' = None
                \* a deactivated plugin holds no viewer: the call raises
                /\ viewer' = IF active THEN showResults(viewer, results)
                              ELSE viewer
        /\ statusBar' = None
        /\ opened' = None
        /\ discovered' = None
        /\ written' = None

\* the child exits: __finished, and the plugin's slot when sigFinished is
\* emitted
finishedInPlugin(exitCode, exitStatus) ==
    /\ Finished(exitCode, exitStatus)
    /\ IF emitted' = None
       THEN /\ Quiet
            /\ UNCHANGED <<viewer, cursor, latest, tabs>>
       ELSE /\ pylintFinished(emitted'[1])
            /\ latest' = emitted'
    /\ UNCHANGED <<editor, current, active>>

PluginFinished(exitCode, exitStatus) ==
    /\ finishedInPlugin(exitCode, exitStatus)
    /\ UNCHANGED <<lastRun, prevRun>>

\* the same, with the last two emissions kept for comparison
RecordedFinished(exitCode, exitStatus) ==
    /\ finishedInPlugin(exitCode, exitStatus)
    /\ IF emitted' = None
       THEN UNCHANGED <<lastRun, prevRun>>
       ELSE /\ lastRun' = Some([given   |-> fin'[1],
                                results |-> emitted'[1]])
            /\ prevRun' = lastRun

\* the file PylintDriver.generateRCFile redirects the output to
generateRCFile(env, fname) ==
    IF env.loaded THEN env.projectDir \o "pylintrc"
    ELSE dirname(fname[1]) \o sep \o "pylintrc"

\* the file name __generate passes on: None for a buffer never saved
generateFileName ==
    IF isabs(editor.fileName) THEN Some(editor.fileName) ELSE None

\* __generate asks for a new file whatever the discovery found
NeedsGenerating_Always(rcfile) == TRUE

\* 'if not rcfile' of __generate
NeedsGenerating(rcfile) == rcfile = None \/ rcfile = Some("")

CannotGenerateMessage ==
    "Cannot generate pylintrc. "
    \o "The current buffer file has not been saved yet "
    \o "and there is no project"

GenerateErrorMessage == "Error generating pylintrc file "

\* __generate on a buffer never saved with no project: the error is logged
GenerateRefused ==
    LET rcfile == getPylintrc(ide, generateFileName)
    IN  /\ NeedsGenerating(rcfile)
        /\ generateFileName = None /\ ~ide.loaded
        /\ discovered' = Some(rcfile)
        /\ logged' = Some(CannotGenerateMessage)
        /\ written' = None
        /\ opened' = None
        /\ statusBar' = None
        /\ DriverUntouched("generate")
        /\ UNCHANGED <<ide, editor, viewer, cursor, latest, lastRun,
                       prevRun, tabs, current, active>>

\* __generate when a configuration file is found: it is opened
GenerateOpen ==
    LET rcfile == getPylintrc(ide, generateFileName)
    IN  /\ ~NeedsGenerating(rcfile)
        /\ discovered' = Some(rcfile)
        /\ opened' = rcfile
        /\ written' = None
        /\ logged' = None
        /\ statusBar' = None
        /\ DriverUntouched("generate")
        /\ UNCHANGED <<ide, editor, viewer, cursor, latest, lastRun,
                       prevRun, tabs, current, active>>

\* __generate calling generateRCFile: the child's output goes to the file,
\* which exists afterwards unless it could not be created; the override
\* cursor is set for the call and restored after it
GenerateWritten(created) ==
    LET rcfile == getPylintrc(ide, generateFileName)
        target == generateRCFile(ide, generateFileName)
    IN  /\ NeedsGenerating(rcfile)
        /\ ~(generateFileName = None /\ ~ide.loaded)
        /\ discovered' = Some(rcfile)
        /\ written' = Some(target)
        /\ ide' = IF created
                  THEN [ide EXCEPT !.files = @ \cup {target}] ELSE ide
        /\ IF target \in ide'.files
           THEN /\ opened' = Some(target)
                /\ logged' = None
           ELSE /\ opened' = None
                /\ logged' = Some(GenerateErrorMessage \o target)
        /\ statusBar' = None
        /\ DriverUntouched("generate")
        /\ UNCHANGED <<editor, viewer, cursor, latest, lastRun,
                       prevRun, tabs, current, active>>

\* the viewer's Clear button
ViewerClear ==
    /\ viewer' = clear(viewer)
    /\ latest' = None
    /\ DriverUntouched("clear")
    /\ Quiet
    /\ UNCHANGED <<ide, editor, cursor, lastRun, prevRun, tabs, current,
                   active>>

\* what the children of the plugin's runs write to stdout and stderr
PluginChildren ==
    { [out |-> <<>>, err |-> <<"boom">>],
      [out |-> <<HeaderM \o "C0103:  12,0", ": foo: bad name\n\n" \o RateLine>>,
       err |-> <<>>],
      [out |-> <<HeaderN \o "E1101:  4,4: f: no member\n"
                         \o "W0611:  3,0: : unused\n">>,
       err |-> <<>>],
      [out |-> <<"C0103: ,5: x\n">>, err |-> <<>>] }

\* the editors of Python text the runs are asked for
PluginEditors ==
    { e \in Editors : e.type = "PlainTextEditor" /\ isPythonMime(e.mime) }

PluginInit ==
    /\ ide \in { i \in Ides : i.loaded }
    /\ DriverCreated
    /\ PluginActivated

\* the plugin in the IDE: the user's actions and the child's events
PluginNext ==
    \/ \E e \in PluginEditors : EditorChange(e)
    \/ RunRefused
    \/ \E child \in PluginChildren : RunLaunched(child.out, child.err)
    \/ RunFailed
    \/ DriverReadStdOutput
    \/ DriverReadStdError
    \/ \E code \in ExitCodes : PluginFinished(code, NormalExit)
    \/ PluginFinished(KillCode, CrashExit)
    \/ ViewerClear

PluginSpec == PluginInit /\ [][PluginNext]_vars

\* the IDE states the configuration file is looked up and generated in
ConfigIdes ==
    { [loaded |-> FALSE, projectDir |-> "", importDirs |-> <<>>,
       files |-> {}],
      [loaded |-> FALSE, projectDir |-> "", importDirs |-> <<>>,
       files |-> {"/q/.pylintrc", "/p/pylintrc"}],
      [loaded |-> TRUE, projectDir |-> "/r/", importDirs |-> <<>>,
       files |-> {}],
      [loaded |-> TRUE, projectDir |-> "/r/",
       importDirs |-> <<"/i1", "/i2", "/i3">>,
       files |-> {"/q/pylintrc", "/q/.pylintrc", "/r/.pylintrc"}],
      [loaded |-> TRUE, projectDir |-> "/p/", importDirs |-> <<"/i\"4">>,
       files |-> {"/p/.pylintrc"}] }

ConfigInit ==
    /\ ide \in ConfigIdes
    /\ DriverCreated
    /\ PluginActivated

\* what the children write while the configuration is looked at
ConfigChildren ==
    { [out |-> <<>>, err |-> <<>>],
      [out |-> <<HeaderM \o "C0103:  12,0: foo: bad name\n\n" \o RateLine>>,
       err |-> <<>>] }

\* the plugin used to look up, generate and pass on the configuration
ConfigNext ==
    \/ \E e \in Editors : EditorChange(e)
    \/ GenerateRefused
    \/ GenerateOpen
    \/ \E created \in BOOLEAN : GenerateWritten(created)
    \/ \E child \in ConfigChildren : RunLaunched(child.out, child.err)
    \/ DriverReadStdOutput
    \/ RecordedFinished(0, NormalExit)
    \/ ViewerClear

ConfigSpec == ConfigInit /\ [][ConfigNext]_vars


(***************************************************************************)
(* The driver with a sigFinished listener that calls back into it: the     *)
(* slot runs inside emit(), before __finished reaches its last line        *)
(***************************************************************************)
\* what the children of these runs write
ListenerChildren ==
    { [out |-> <<>>, err |-> <<"boom">>],
      [out |-> <<HeaderM \o "C0103:  12,0: foo: bad name\n", RateLine>>,
       err |-> <<>>] }

\* __finished of a child that exited by itself, with a listener that calls
\* start(fn, enc) from its slot: __process is None by then, so the start is
\* accepted and sets __args; emit() returns and the last line of __finished
\* sets __args to None
ListenerStart(exitCode, fn, enc, out, err) ==
    LET r == FinishedResults(exitCode, NormalExit, fileName, clock + 1,
                             args, stdout, stderr)
    IN  /\ process # None
        /\ process[1] \in children
        /\ outPos = Len(script.out)
        /\ errPos = Len(script.err)
        /\ ~r.raised
        /\ nStarts < MaxRuns
        /\ fin' = Some([stdout |-> stdout, stderr |-> stderr,
                        exitCode |-> exitCode, exitStatus |-> NormalExit,
                        fileName |-> fileName, analysed |-> script.file,
                        raised |-> FALSE])
        /\ emitted' = Some(r.results)
        /\ clock' = clock + 1
        /\ nExited' = nExited + 1
        /\ nPublished' = nPublished + 1
        \* start() in the slot
        /\ fileName' = fn
        /\ encoding' = IF enc = None THEN "utf-8" ELSE enc[1]
        /\ stdout' = ""
        /\ stderr' = ""
        /\ process' = Some(nStarts + 1)
        /\ children' = (children \ {process[1]}) \cup {nStarts + 1}
        /\ script' = [cwd |-> dirname(fn),
                      sysPath |-> childSysPath(BuildArgs(ide, fn)),
                      file |-> dirname(fn) \o sep \o BuildArgs(ide, fn)[7],
                      out |-> out, err |-> err]
        /\ outPos' = 0
        /\ errPos' = 0
        /\ nStarts' = nStarts + 1
        /\ nAccepted' = nAccepted + 1
        /\ ret' = None
        /\ lastOp' = "start"
        \* back in __finished
        /\ args' = None
        /\ UNCHANGED <<ide, nRaised>>
        /\ PluginIdle

ListenerNext ==
    \/ \E fn \in FileNames, enc \in Encodings, c \in ListenerChildren :
            DriverStartLaunched(fn, enc, c.out, c.err)
    \/ DriverReadStdOutput
    \/ DriverReadStdError
    \* the slot does nothing, or calls stop(): __process is None by then and
    \* stop() finds nothing to do
    \/ \E code \in ExitCodes : DriverFinished(code, NormalExit)
    \/ \E code \in ExitCodes, fn \in FileNames, enc \in Encodings,
          c \in ListenerChildren :
            ListenerStart(code, fn, enc, c.out, c.err)
    \/ DriverStopRunning
    \/ DriverStopIdle

ListenerSpec == Init /\ [][ListenerNext]_vars

(***************************************************************************)
(* The plugin with several editor tabs, deactivated and activated again    *)
(***************************************************************************)
\* how many editor tabs are open at most
MaxTabs == 2

\* the text editors the tabs hold
TabsEditors == { e \in PluginEditors : isabs(e.fileName) }

\* what the children of these runs write to stdout and stderr
TabsChildren ==
    { [out |-> <<>>, err |-> <<"boom">>],
      [out |-> <<HeaderM \o "C0103:  12,0: foo: bad name\n">>, err |-> <<>>],
      [out |-> <<"C0103: ,5: x\n">>, err |-> <<>>] }

\* __textEditorTabAdded: the IDE has opened a text editor in a new tab and
\* made it the current one; __addButton gives it the 'pylint' action
TabAdded(e) ==
    /\ Len(tabs) < MaxTabs
    /\ tabs' = Append(tabs,
                      [widget |-> e,
                       action |-> IF active THEN pylintAction(e) ELSE None])
    /\ current' = Len(tabs) + 1
    /\ editor' = e
    /\ DriverUntouched("tab")
    /\ Quiet
    /\ UNCHANGED <<ide, viewer, cursor, latest, lastRun, prevRun, active>>

\* the user brings another tab to the front: no handler of the plugin runs
TabSwitched(i) ==
    /\ i \in DOMAIN tabs
    /\ i # current
    /\ current' = i
    /\ editor' = tabs[i].widget
    /\ DriverUntouched("switch")
    /\ Quiet
    /\ UNCHANGED <<ide, viewer, cursor, latest, lastRun, prevRun, tabs,
                   active>>

\* what deactivate() does to the plugin's side: the viewer leaves the side
\* bar and the actions leave the toolbars; the override cursor is not
\* touched
deactivated ==
    /\ active
    /\ active' = FALSE
    /\ tabs' = [i \in DOMAIN tabs |-> [tabs[i] EXCEPT !.action = None]]
    /\ lastOp' = "deactivate"
    /\ ret' = None
    /\ emitted' = None
    /\ fin' = None
    /\ Quiet
    /\ UNCHANGED <<ide, editor, viewer, cursor, latest, lastRun, prevRun,
                   current, clock, nStarts, nAccepted, nExited, nPublished,
                   nRaised, args, fileName, encoding, stdout, stderr>>

\* deactivate(), and the driver it lets go of is destroyed with its
\* QProcess: the child is killed and no signal of it is delivered
DeactivateDropped ==
    /\ deactivated
    /\ process' = None
    /\ children' = {}
    /\ script' = NoScript
    /\ outPos' = 0
    /\ errPos' = 0

\* deactivate() during a run, and the driver it lets go of outlives the
\* call: the child runs on and its signals still reach __finished
DeactivateKept ==
    /\ isInProcess
    /\ deactivated
    /\ UNCHANGED <<process, children, script, outPos, errPos>>

\* activate() after a deactivation, once no child of the old driver is
\* left: a new viewer, a new driver, and an action for every text editor
Activate ==
    /\ ~active
    /\ process = None
    /\ children = {}
    /\ active' = TRUE
    /\ viewer' = clear(NewViewer)
    /\ latest' = None
    /\ args' = None
    /\ fileName' = ""
    /\ encoding' = ""
    /\ stdout' = ""
    /\ stderr' = ""
    /\ tabs' = [i \in DOMAIN tabs |->
                   [tabs[i] EXCEPT !.action = pylintAction(tabs[i].widget)]]
    /\ lastOp' = "activate"
    /\ ret' = None
    /\ emitted' = None
    /\ fin' = None
    /\ Quiet
    /\ UNCHANGED <<ide, process, children, script, outPos, errPos, clock,
                   nStarts, nAccepted, nExited, nPublished, nRaised, editor,
                   cursor, lastRun, prevRun, current>>

TabsNext ==
    \/ \E e \in TabsEditors : EditorChange(e)
    \/ \E e \in TabsEditors : TabAdded(e)
    \/ \E i \in 1 .. MaxTabs : TabSwitched(i)
    \/ active /\ RunRefused
    \/ \E c \in TabsChildren : active /\ RunLaunched(c.out, c.err)
    \/ active /\ RunFailed
    \/ DriverReadStdOutput
    \/ \E code \in ExitCodes : PluginFinished(code, NormalExit)
    \/ DeactivateDropped
    \/ DeactivateKept
    \/ Activate

TabsSpec == PluginInit /\ [][TabsNext]_vars

(***************************************************************************)
(* Properties                                                              *)
(***************************************************************************)
\* the dictionary the last step emitted carries the four message lists
HasBuckets == emitted # None /\ Categories \subseteq DOMAIN emitted[1]

\* the lines of the stdout the last __finished call parsed
FinLines == splitlines(fin[1].stdout)

\* C1: at most one child pylint process is outstanding in every reachable
\* state, and a start() issued while isInProcess() is true returns the busy
\* error string and spawns no process.
C1_AtMostOneChild ==
    [][ /\ Cardinality(children) <= 1
        /\ Cardinality(children') <= 1
        /\ (isInProcess /\ lastOp' = "start") =>
               /\ ret' = Some(BusyMessage)
               /\ children' = children
               /\ nStarts' = nStarts ]_vars

\* C1 witness: a start() was refused as busy while a child is running
C1_Witness ==
    /\ lastOp = "start"
    /\ ret = Some(BusyMessage)
    /\ Cardinality(children) = 1
    /\ isInProcess

\* C2: every accepted run whose child has exited has had exactly one result
\* published through sigFinished, and no result is published without an
\* accepted start before it.
C2_OneResultPerExit ==
    /\ nPublished = nExited
    /\ nPublished <= nAccepted

\* C3: when the buffered stdout of a finished run is empty, the published
\* result has ProcessError 'pylint error:\n' + stderr if stderr is not
\* empty, else the 'no output (finished abruptly)' message naming the
\* analysed file, and carries no message lists.
C3_EmptyStdoutError ==
    (fin # None /\ fin[1].stdout = "") =>
        /\ emitted # None
        /\ "ProcessError" \in DOMAIN emitted[1]
        /\ emitted[1].ProcessError =
               IF fin[1].stderr # ""
               THEN "pylint error:\n" \o fin[1].stderr
               ELSE "pylint produced no output (finished abruptly) for "
                    \o fin[1].analysed
        /\ Categories \cap DOMAIN emitted[1] = {}

\* C3 witness: both kinds of error text have been published
C3_Witness ==
    /\ fin # None
    /\ fin[1].stdout = ""
    /\ fin[1].stderr = ""
    /\ emitted # None
    /\ nPublished = 2
    /\ fin[1].analysed = "/q/b.py"

\* C4: whatever the stdout text, __finished is not left by an exception and
\* publishes a result.
C4_ParserNeverRaises ==
    fin # None => (~fin[1].raised /\ emitted # None)

\* the report of one template case under the header of module m
TemplateReport(t) == HeaderM \o TemplateLine(t) \o "\n"

\* the message lists with the one item in the list of the given category
OneItem(cat, item) == [c \in Categories |-> IF c = cat THEN <<item>> ELSE <<>>]

EmittedBuckets == [c \in Categories |-> emitted[1][c]]

\* the report of the example: the line number padded by two blanks
ExampleReport == "************* Module m\nC0103:  12,0: foo: bad name\n"

\* C5 as stated: a template line '<msg_id>:<line>,<column>: <obj>: <msg>'
\* under a module header gives exactly one message, with code <msg_id>,
\* lineNumber <line> and text <msg> alone; the example gives the one
\* Convention message ('m', 12, 'bad name', 'C0103').
C5_TextIsMsgAlone ==
    /\ \A t \in TemplateCases :
           (fin # None /\ fin[1].stdout = TemplateReport(t)) =>
               /\ HasBuckets
               /\ EmittedBuckets =
                      OneItem(CharAt(t.msgId, 0),
                              <<"m", t.line, t.msg, t.msgId>>)
    /\ (fin # None /\ fin[1].stdout = ExampleReport) =>
           /\ HasBuckets
           /\ EmittedBuckets = OneItem("C", <<"m", 12, "bad name", "C0103">>)

\* C5 amended: the one message has code <msg_id>, lineNumber <line> and the
\* text '<obj>: <msg>', which is <msg> alone only when <obj> is empty; the
\* example gives the one Convention message ('m', 12, 'foo: bad name',
\* 'C0103').
C5_TextIsObjAndMsg ==
    /\ \A t \in TemplateCases :
           (fin # None /\ fin[1].stdout = TemplateReport(t)) =>
               /\ HasBuckets
               /\ EmittedBuckets =
                      OneItem(CharAt(t.msgId, 0),
                              <<"m", t.line,
                                IF t.obj = "" THEN t.msg
                                ELSE t.obj \o ": " \o t.msg,
                                t.msgId>>)
    /\ (fin # None /\ fin[1].stdout = ExampleReport) =>
           /\ HasBuckets
           /\ EmittedBuckets =
                  OneItem("C", <<"m", 12, "foo: bad name", "C0103">>)

\* C5 witness: a template report with an object name and a message that
\* holds a colon has been parsed and published
C5_Witness ==
    /\ fin # None
    /\ \E t \in TemplateCases :
           /\ t.obj # ""
           /\ find(t.msg, ":", 0) >= 0
           /\ fin[1].stdout = TemplateReport(t)
    /\ HasBuckets
    /\ Len(emitted[1].E) = 1

\* how many lines from line i on the loop turns into an item
RECURSIVE ItemLines(_, _)
ItemLines(lines, i) ==
    IF i > Len(lines) THEN 0
    ELSE (IF ~startswith(lines[i], modulePattern)
             /\ ParseLine(lines[i], "").kind = "item" THEN 1 ELSE 0)
         + ItemLines(lines, i + 1)

\* C6: in a published result with message lists, every message is in the
\* list named by the first character of its code, and in that list only:
\* the four lists together hold one message per parsed line.
C6_OneBucketByFirstChar ==
    HasBuckets =>
        /\ \A c \in Categories :
               \A k \in 1 .. Len(emitted[1][c]) :
                   CharAt(emitted[1][c][k][4], 0) = c
        /\ Len(emitted[1].C) + Len(emitted[1].R)
           + Len(emitted[1].W) + Len(emitted[1].E) = ItemLines(FinLines, 1)

\* C6 witness: a result with messages in all four lists, one of them with
\* a code of two category letters
C6_Witness ==
    /\ HasBuckets
    /\ \A c \in Categories : Len(emitted[1][c]) >= 1
    /\ Len(emitted[1].E) = 2

RateSentence ==
    "Your code has been rated at 8.50/10 (previous run: 7.00/10"

\* C7: a non-empty stdout that contains 'Your code has been rated at
\* 8.50/10 (previous run: 7.00/10' at any position, the very start
\* included, gives Rate '8.50' and PreviousRunRate '7.00'.
C7_RateAtAnyPosition ==
    (fin # None /\ ~fin[1].raised
     /\ find(fin[1].stdout, RateSentence, 0) >= 0) =>
        /\ emitted # None
        /\ "Rate" \in DOMAIN emitted[1]
        /\ emitted[1].Rate = "8.50"
        /\ "PreviousRunRate" \in DOMAIN emitted[1]
        /\ emitted[1].PreviousRunRate = "7.00"

\* a line that matches ^[CRWE]+([0-9]{4})?: , spelt out
CandidateLine(line) ==
    \E k \in 1 .. Len(line) :
        /\ \A j \in 1 .. k : SubSeq(line, j, j) \in {"C", "R", "W", "E"}
        /\ \/ SubSeq(line, k + 1, k + 1) = ":"
           \/ /\ Len(line) >= k + 5
              /\ \A j \in k + 1 .. k + 4 : SubSeq(line, j, j) \in Digits
              /\ SubSeq(line, k + 5, k + 5) = ":"

NoCandidateLines ==
    \A i \in 1 .. Len(FinLines) : ~CandidateLine(FinLines[i])

\* C8 as stated: for any stdout without candidate lines the published
\* result has four empty lists and no ProcessError.
C8_NoCandidatesAnyStdout ==
    (fin # None /\ NoCandidateLines) =>
        /\ HasBuckets
        /\ EmittedBuckets = EmptyBuckets
        /\ "ProcessError" \notin DOMAIN emitted[1]

\* C8 amended: for any non-empty stdout without candidate lines the
\* published result has four empty lists and no ProcessError.
C8_NoCandidatesNonEmptyStdout ==
    (fin # None /\ fin[1].stdout # "" /\ NoCandidateLines) =>
        /\ HasBuckets
        /\ EmittedBuckets = EmptyBuckets
        /\ "ProcessError" \notin DOMAIN emitted[1]

\* C8 witness: a stdout of two lines, neither a candidate, was published
C8_Witness ==
    /\ fin # None
    /\ Len(FinLines) >= 2
    /\ NoCandidateLines
    /\ HasBuckets
    /\ "Rate" \in DOMAIN emitted[1]

\* C9: a published result has ProcessError iff the buffered stdout was
\* empty; with it there are no message lists and no StdOut, without it
\* there are the four lists, StdOut and StdErr; ExitCode and ExitStatus are
\* those the child delivered in both cases.
C9_ErrorIffEmptyStdout ==
    emitted # None =>
        /\ fin # None
        /\ ("ProcessError" \in DOMAIN emitted[1]) <=> (fin[1].stdout = "")
        /\ "ProcessError" \in DOMAIN emitted[1] =>
               /\ Categories \cap DOMAIN emitted[1] = {}
               /\ "StdOut" \notin DOMAIN emitted[1]
        /\ "ProcessError" \notin DOMAIN emitted[1] =>
               /\ Categories \subseteq DOMAIN emitted[1]
               /\ {"StdOut", "StdErr"} \subseteq DOMAIN emitted[1]
               /\ emitted[1].StdOut = fin[1].stdout
               /\ emitted[1].StdErr = fin[1].stderr
        /\ emitted[1].ExitCode = fin[1].exitCode
        /\ emitted[1].ExitStatus = fin[1].exitStatus

\* C9 witness: a crashed child with parsed output
C9_Witness ==
    /\ HasBuckets
    /\ emitted[1].ExitStatus = CrashExit
    /\ emitted[1].ExitCode = KillCode
    /\ lastOp = "finished"
    /\ emitted[1].StdErr = "boom"

\* the messages of the emitted dictionary, of all four lists
AllItems ==
    UNION { { emitted[1][c][k] : k \in 1 .. Len(emitted[1][c]) } :
                c \in Categories }

\* C10 as stated: every message of every published result has a
\* lineNumber >= 1.
C10_LineNumberPositive ==
    HasBuckets => \A item \in AllItems : item[2] >= 1

\* the number a location token denotes: sign, then the digits up to the
\* first comma
LocationValue(line) ==
    LET c1 == find(line, ":", 0)
        c2 == find(line, ":", c1 + 1)
        token == SplitFirst(strip(Slice(line, c1 + 1, c2)), ",")
        digits == IF CharAt(token, 0) \in {"+", "-"} THEN SliceFrom(token, 1)
                  ELSE token
        value == DigitStringValue(strip(digits), 0)
    IN  IF CharAt(token, 0) = "-" THEN 0 - value ELSE value

\* C10 amended: the lineNumber of a message is the integer its location
\* token denotes up to the first comma, sign included; it is >= 1 only
\* when that number is.
C10_LineNumberIsLocationValue ==
    HasBuckets =>
        \A item \in AllItems :
            \E i \in 1 .. Len(FinLines) :
                /\ startswith(FinLines[i], item[4] \o ":")
                /\ item[2] = LocationValue(FinLines[i])

\* C10 witness: a published message with a negative line number and one
\* whose token has a leading plus sign
C10_Witness ==
    /\ HasBuckets
    /\ \E item \in AllItems : item[2] = 0 - 3
    /\ \E item \in AllItems : item[2] = 7

\* the first n pieces of a script, joined
RECURSIVE Joined(_, _)
Joined(pieces, n) ==
    IF n = 0 THEN "" ELSE Joined(pieces, n - 1) \o pieces[n]

\* C11: a start() that returns the busy message leaves the process, the
\* file name, the encoding, the argument list and the buffered stdout and
\* stderr as they were, and every result published names the file the
\* child was started on and carries all the output that child wrote
C11_BusyStartIgnored ==
    [][/\ (lastOp' = "start" /\ ret' = Some(BusyMessage)) =>
              UNCHANGED <<process, args, fileName, encoding, stdout, stderr,
                          children, script, outPos, errPos>>
       /\ emitted' # None =>
              /\ emitted'[1]["FileName"] = script.file
              /\ "StdOut" \in DOMAIN emitted'[1] =>
                     /\ emitted'[1]["StdOut"] = Joined(script.out, outPos)
                     /\ emitted'[1]["StdErr"] = Joined(script.err, errPos)
      ]_vars

\* a start() was just rejected as busy while output of the run in flight
\* was already buffered
C11_Witness ==
    /\ lastOp = "start"
    /\ ret = Some(BusyMessage)
    /\ process # None
    /\ stdout # ""
    /\ stderr # ""

\* the current editor holds a saved Python file: __canRun refuses it only
\* while a run is in progress
RunnableEditor ==
    /\ editor.type = "PlainTextEditor"
    /\ isPythonMime(editor.mime)
    /\ ~editor.modified
    /\ isabs(editor.fileName)

\* C12: after __run is triggered while a run is in progress, a message is
\* in the status bar or in the log
C12_BusySurfaced ==
    (lastOp = "run" /\ isInProcess) => (statusBar # None \/ logged # None)

\* C12 (amended): __run triggered while a run is in progress shows
\* nothing in the status bar, logs nothing, does not call start() and
\* leaves the driver, the viewer and the cursor as they were
C12_BusySilentlyIgnored ==
    [][(lastOp' = "run" /\ isInProcess) =>
           /\ statusBar' = None
           /\ logged' = None
           /\ ret' = None
           /\ UNCHANGED <<process, args, fileName, encoding, stdout, stderr,
                          children, script, outPos, errPos, nStarts,
                          nAccepted, viewer, cursor>>
      ]_vars

\* __run was just triggered on a saved Python file while a run with
\* buffered output was in progress
C12_Witness ==
    /\ lastOp = "run"
    /\ isInProcess
    /\ RunnableEditor
    /\ stdout # ""

\* C13: a start() whose child fails to start returns the launch-failure
\* message, publishes nothing and counts for no publication later (the
\* publications never outnumber the accepted starts), runs no child and
\* leaves the driver idle, the state in which start() launches
C13_LaunchFailure ==
    [][/\ (lastOp' = "start" /\ process = None /\ ret' # None) =>
              /\ ret' = Some(FailedMessage)
              /\ emitted' = None
              /\ nPublished' = nPublished
              /\ nAccepted' = nAccepted
              /\ children' = children
              /\ ~isInProcess'
       /\ nPublished' + nRaised' <= nAccepted'
       /\ (lastOp' = "start" /\ process = None /\ ret' = None) =>
              /\ isInProcess'
              /\ nAccepted' = nAccepted + 1
      ]_vars

\* a start() has just been accepted after an earlier one had failed to
\* launch
C13_Witness ==
    /\ lastOp = "start"
    /\ ret = None
    /\ isInProcess
    /\ nStarts = 2
    /\ nAccepted = 1

\* C14: when stop() returns no child is running, the driver holds no
\* process (the state in which start() launches) and, if a run was
\* active, its child has exited, __finished has run for it and the
\* argument list is released; stop() on an idle driver changes nothing
C14_StopReleases ==
    [][lastOp' = "stop" =>
           /\ children' = {}
           /\ ~isInProcess'
           /\ process # None =>
                  /\ args' = None
                  /\ nExited' = nExited + 1
                  /\ fin' # None
                  /\ fin'[1].exitStatus = CrashExit
           /\ process = None =>
                  /\ emitted' = None
                  /\ UNCHANGED <<ide, process, args, fileName, encoding,
                                 stdout, stderr, children, script, outPos,
                                 errPos, clock, nStarts, nAccepted, nExited,
                                 nPublished, nRaised>>
      ]_vars

\* stop() has just ended a run whose child had written output: the child
\* is gone, __finished has run for it and the driver is idle
C14_Witness ==
    /\ lastOp = "stop"
    /\ fin # None
    /\ fin[1].stdout # ""
    /\ emitted # None
    /\ children = {}
    /\ ~isInProcess
    /\ args = None

\* the rows the viewer's tree shows, each with the title it is under
ShownMessages(v) ==
    UNION { { <<v.tree[i].title, v.tree[i].children[k]>> :
                k \in 1 .. Len(v.tree[i].children) } :
            i \in 1 .. Len(v.tree) }

\* the rows a result calls for: line number, message id and text of each
\* message, under the title of its category
ResultMessages(results) ==
    UNION { { <<CHOOSE t \in {"Errors", "Warnings", "Refactoring",
                              "Cosmetics"} : SubSeq(t, 1, 1) = c,
                <<str(results[c][k][2]), results[c][k][4],
                  results[c][k][3]>>>> :
                k \in 1 .. Len(results[c]) } :
            c \in Categories }

\* C15: the viewer holds exactly the dictionary of the last emission, or
\* nothing when a clear came after it
C15_ViewerHoldsLatest == viewer.results = latest

\* C15 (amended): an emission without ProcessError replaces what the
\* viewer holds and shows, rows included; an emission with ProcessError
\* is logged and leaves the viewer as it was; a clear empties it; nothing
\* else changes the viewer
C15_ViewerHoldsLatestShown ==
    [][/\ (emitted' # None /\ "ProcessError" \notin DOMAIN emitted'[1]) =>
              /\ viewer'.results = emitted'
              /\ viewer'.filePath = Some(emitted'[1]["FileName"])
              /\ viewer'.treeVisible
              /\ ~viewer'.noneVisible
              /\ ShownMessages(viewer') = ResultMessages(emitted'[1])
       /\ (emitted' # None /\ "ProcessError" \in DOMAIN emitted'[1]) =>
              /\ viewer' = viewer
              /\ logged' = Some(emitted'[1]["ProcessError"])
       /\ lastOp' = "clear" =>
              /\ viewer'.results = None
              /\ viewer'.tree = <<>>
              /\ ~viewer'.treeVisible
              /\ viewer'.noneVisible
       /\ (emitted' = None /\ lastOp' # "clear") => viewer' = viewer
      ]_vars

\* the second run's result has just replaced the first one's: the rate
\* label still carries the first run's rate, hidden, as the second run
\* has none
C15_Witness ==
    /\ emitted # None
    /\ nPublished = 2
    /\ viewer.results = emitted
    /\ "Rate" \notin DOMAIN emitted[1]
    /\ viewer.rateText # ""
    /\ ~viewer.rateVisible
    /\ ShownMessages(viewer) # {}

\* a dictionary without some of its keys
Without(results, keys) == [k \in DOMAIN results \ keys |-> results[k]]

\* the last two emissions came from __finished calls given the same
\* stdout, stderr, exit code, exit status and file
SameGiven ==
    /\ lastRun # None
    /\ prevRun # None
    /\ lastRun[1].given.stdout = prevRun[1].given.stdout
    /\ lastRun[1].given.stderr = prevRun[1].given.stderr
    /\ lastRun[1].given.exitCode = prevRun[1].given.exitCode
    /\ lastRun[1].given.exitStatus = prevRun[1].given.exitStatus
    /\ lastRun[1].given.fileName = prevRun[1].given.fileName

JustLaunched == lastOp = "start" /\ ret = None /\ isInProcess

\* the arguments every run starts with
FixedArgs ==
    <<"-m", "pylint", "--output-format", "text", "--msg-template",
      "{msg_id}:{line:3d},{column}: {obj}: {msg}">>

\* --rcfile and its value, when a configuration file is found for the file
RcfileArgs ==
    IF getPylintrc(ide, Some(fileName)) = None THEN <<>>
    ELSE <<"--rcfile", getPylintrc(ide, Some(fileName))[1]>>

\* --init-hook and its value, when the project has import directories
InitHookArgs ==
    IF getInitHook(ide) = None THEN <<>>
    ELSE <<"--init-hook", getInitHook(ide)[1]>>

\* C17: the child is started in the file's directory with the fixed
\* arguments, then --rcfile, then --init-hook, and the base name last
C17_BasenameLast ==
    JustLaunched =>
        /\ args = Some(FixedArgs \o RcfileArgs \o InitHookArgs
                       \o <<basename(fileName)>>)
        /\ script.cwd = dirname(fileName)

\* C17 (amended): the child is started in the file's directory with the
\* fixed arguments, then the base name, then --rcfile, then --init-hook
C17_BasenameBeforeOptions ==
    JustLaunched =>
        /\ args = Some(FixedArgs \o <<basename(fileName)>> \o RcfileArgs
                       \o InitHookArgs)
        /\ script.cwd = dirname(fileName)

\* a child was just started with a configuration file and an init hook
C17_Witness ==
    /\ JustLaunched
    /\ RcfileArgs # <<>>
    /\ InitHookArgs # <<>>
    /\ Len(args[1]) = 11
    /\ script.cwd = "/q"

\* the file names getPylintrc is called with: none, or an absolute path
RcInputs ==
    {None}
    \cup { Some(e.fileName) : e \in { w \in Editors : isabs(w.fileName) } }

\* the paths the lookup is to try for a file name, in order
RcCandidates(env, fname) ==
    (IF fname = None THEN <<>>
     ELSE <<dirname(fname[1]) \o "/pylintrc",
            dirname(fname[1]) \o "/.pylintrc">>)
    \o (IF env.loaded
        THEN <<env.projectDir \o "pylintrc", env.projectDir \o ".pylintrc">>
        ELSE <<>>)

\* r is the first of the candidates that exists, or None if none does
IsFirstExisting(r, env, fname) ==
    LET c == RcCandidates(env, fname)
        existing == { i \in 1 .. Len(c) : c[i] \in env.files }
    IN  IF existing = {} THEN r = None
        ELSE \E i \in existing :
                /\ r = Some(c[i])
                /\ \A j \in existing : i <= j

\* C18: getPylintrc returns the first existing path among
\* <file dir>/pylintrc, <file dir>/.pylintrc (with a file name only),
\* <project root>/pylintrc, <project root>/.pylintrc (with a project
\* only), and None exactly when none exists; __generate and start() get
\* this answer for the current file
C18_FirstExistingCandidate ==
    /\ \A f \in RcInputs : IsFirstExisting(getPylintrc(ide, f), ide, f)
    /\ (lastOp = "generate" /\ written = None) =>
           /\ discovered # None
           /\ IsFirstExisting(discovered[1], ide, generateFileName)
    /\ JustLaunched =>
           \/ /\ IsFirstExisting(None, ide, Some(fileName))
              /\ \A k \in 1 .. Len(args[1]) : args[1][k] # "--rcfile"
           \/ \E k \in 1 .. Len(args[1]) - 1 :
                 /\ args[1][k] = "--rcfile"
                 /\ IsFirstExisting(Some(args[1][k + 1]), ide, Some(fileName))

\* __generate has just opened the project's .pylintrc, the last of the
\* four candidates, for a file whose directory holds none, while another
\* directory holds both
C18_Witness ==
    /\ lastOp = "generate"
    /\ editor.fileName = "/p/a.py"
    /\ ide.loaded
    /\ discovered = Some(Some("/r/.pylintrc"))
    /\ opened = Some("/r/.pylintrc")
    /\ "/q/pylintrc" \in ide.files

\* the argument list has an --init-hook option
HasInitHook == \E k \in 1 .. Len(args[1]) : args[1][k] = "--init-hook"

\* C19: a child started with a project loaded that has import directories
\* d1..dn gets an init hook after which d1..dn are the first n entries of
\* its sys.path, d1 first; a child started otherwise gets no init hook
C19_ImportDirsFirstInOrder ==
    JustLaunched =>
        IF ide.loaded /\ ide.importDirs # <<>>
        THEN /\ HasInitHook
             /\ Len(script.sysPath) >= Len(ide.importDirs)
             /\ SubSeq(script.sysPath, 1, Len(ide.importDirs))
                = ide.importDirs
        ELSE /\ ~HasInitHook
             /\ script.sysPath = BaseSysPath

\* no import directory of the project has a double quote in its name
QuoteFreeImportDirs ==
    \A k \in 1 .. Len(ide.importDirs) :
        find(ide.importDirs[k], "\"", 0) = 0 - 1

\* with import directories free of double quotes the init hook does put
\* them first on sys.path in the configured order
InitHookOrderQuoteFree ==
    (JustLaunched /\ QuoteFreeImportDirs) => C19_ImportDirsFirstInOrder

\* a child was started with three import directories, which its init hook
\* put first on sys.path in the configured order
InitHookOrderReached ==
    /\ JustLaunched
    /\ Len(ide.importDirs) = 3
    /\ SubSeq(script.sysPath, 1, 3) = ide.importDirs
    /\ Len(script.sysPath) = 5

\* C20: __generate writes only to a file that did not exist, named
\* pylintrc in the project root when a project is loaded and in the
\* current file's directory otherwise, and only when the lookup found no
\* configuration file; no existing file is touched; with a buffer never
\* saved and no project it writes nothing and logs the refusal
C20_GeneratesOnlyNewPylintrc ==
    [][lastOp' = "generate" =>
           /\ written' # None =>
                  /\ discovered' = Some(None)
                  /\ written'[1] \notin ide.files
                  /\ written'[1] =
                         IF ide.loaded THEN ide.projectDir \o "pylintrc"
                         ELSE dirname(editor.fileName) \o "/pylintrc"
                  /\ ide'.files \subseteq ide.files \cup {written'[1]}
           /\ written' = None => ide' = ide
           /\ ide.files \subseteq ide'.files
           /\ (~isabs(editor.fileName) /\ ~ide.loaded) =>
                  /\ written' = None
                  /\ opened' = None
                  /\ logged' = Some(CannotGenerateMessage)
      ]_vars

\* __generate on a buffer never saved has just written and opened the
\* pylintrc of the loaded project
C20_Witness ==
    /\ lastOp = "generate"
    /\ ~isabs(editor.fileName)
    /\ ide.loaded
    /\ written = Some("/r/pylintrc")
    /\ opened = written
    /\ "/r/pylintrc" \in ide.files

\* the lines of the parsed stdout that start with the module marker
HeaderLines ==
    { i \in 1 .. Len(FinLines) : startswith(FinLines[i], modulePattern) }

\* the module name in force at line i: the remainder of the nearest header
\* line above it, the empty string when there is none
ModuleAt(i) ==
    LET above == { j \in HeaderLines : j < i }
    IN  IF above = {} THEN ""
        ELSE SliceFrom(FinLines[Greatest(above)], Len(modulePattern))

\* the lines that give a message of list c
MessageLines(c) ==
    { i \in (1 .. Len(FinLines)) \ HeaderLines :
        LET r == ParseLine(FinLines[i], "")
        IN  r.kind = "item" /\ r.bucket = c }

\* the k-th line, from the top, of a set of line numbers
NthLine(S, k) == CHOOSE i \in S : Cardinality({ j \in S : j <= i }) = k

\* C21: in a published result with message lists, the messages of each list
\* are those of the non-header lines that give a message of that list, in
\* the order of the lines, and each carries as moduleName the remainder of
\* the nearest header line above its line, or the empty string when no
\* header line precedes it.
C21_ModuleAndOrder ==
    HasBuckets =>
        \A c \in Categories :
            /\ Len(emitted[1][c]) = Cardinality(MessageLines(c))
            /\ \A k \in 1 .. Len(emitted[1][c]) :
                   LET i == NthLine(MessageLines(c), k)
                   IN  /\ emitted[1][c][k][1] = ModuleAt(i)
                       /\ emitted[1][c][k] =
                              ParseLine(FinLines[i], ModuleAt(i)).item

\* C21 witness: a report with two module headers, messages under each of
\* them, and two messages of one list in the order of their lines
C21_Witness ==
    /\ HasBuckets
    /\ Cardinality(HeaderLines) = 2
    /\ Len(emitted[1].C) = 1 /\ emitted[1].C[1][1] = "m"
    /\ Len(emitted[1].W) = 1 /\ emitted[1].W[1][1] = "n"
    /\ Len(emitted[1].E) = 2
    /\ emitted[1].E[1][2] = 4 /\ emitted[1].E[1][1] = "n"
    /\ emitted[1].E[2][2] = 5

\* the entries of a result other than the five every result starts from
Findings(results) ==
    [k \in DOMAIN results \ {"ExitCode", "ExitStatus", "FileName",
                              "Timestamp", "CommandLine"} |-> results[k]]

\* C25: every accepted start leaves both buffers empty, and the result
\* published when a child ends is made of what that child wrote and of
\* nothing else: with nothing on its stdout a ProcessError built from its
\* own stderr, otherwise its own stdout and stderr as StdOut and StdErr and
\* the messages and rates read from its own stdout.
C25_OnlyOwnOutput ==
    [][/\ (lastOp' = "start" /\ ret' # Some(BusyMessage)) =>
              (stdout' = "" /\ stderr' = "")
       /\ emitted' # None =>
              LET own    == Joined(script.out, outPos)
                  ownErr == Joined(script.err, errPos)
              IN  Findings(emitted'[1]) =
                      IF own = ""
                      THEN "ProcessError" :>
                               ProcessErrorText(ownErr, script.file)
                      ELSE ParseLines(splitlines(own), 1, "",
                                      EmptyBuckets).buckets
                           @@ "StdOut" :> own @@ "StdErr" :> ownErr
                           @@ ParseRate(own)
      ]_vars

\* C25 witness: the run before left its stdout in the buffer (its parsing
\* raised, so nothing of it was published), and the result of the run after
\* it reports a child that wrote nothing at all
C25_Witness ==
    /\ nExited = 2
    /\ nRaised = 1
    /\ emitted # None
    /\ "ProcessError" \in DOMAIN emitted[1]
    /\ fin[1].stdout = ""
    /\ fin[1].stderr = ""

\* the current buffer has unsaved changes or was never saved
UnsavedEditor == editor.modified \/ ~isabs(editor.fileName)

\* a step in which the plugin calls PylintDriver.start: only for a saved,
\* unmodified Python text editor while no run is in flight, and on the file
\* and encoding of that editor
StartOnlyWhenRunnable ==
    nStarts' > nStarts =>
        /\ ~isInProcess
        /\ editor.type = "PlainTextEditor"
        /\ isPythonMime(editor.mime)
        /\ ~UnsavedEditor
        /\ fileName' = editor.fileName
        /\ editor.encoding # None => encoding' = editor.encoding[1]

C22_ArgsSetInFlight == isInProcess => args # None

\* C23: the override cursors the plugin has set and not restored are as
\* many as the runs in flight, one or none, after any sequence of run
\* requests, launch failures, completions and deactivations.
C23_CursorBalanced == cursor = IF isInProcess THEN 1 ELSE 0

\* every 'pylint' action there is is disabled
ActionsDisabled ==
    \A i \in DOMAIN tabs :
        tabs[i].action # None => tabs[i].action = Some(FALSE)

\* every 'pylint' action there is is enabled exactly when __canRun says yes
\* for its tab
ActionsEvaluated ==
    \A i \in DOMAIN tabs :
        tabs[i].action # None =>
            tabs[i].action = Some(canRun(tabs[i].widget)[1])

\* C24: while a run is in flight the 'pylint' action of every text editor
\* tab is disabled, tabs added or changed during the run included, and when
\* the run finishes every action is enabled exactly when __canRun holds for
\* its tab.
C24_DisabledUntilFinished ==
    [][/\ isInProcess' => ActionsDisabled'
       /\ (isInProcess /\ ~isInProcess') => ActionsEvaluated'
      ]_vars

\* the first half of C24 on its own
DisabledWhileRunning == isInProcess => ActionsDisabled

\* the second half of C24 for the runs whose result is published
EvaluatedWhenPublished ==
    [][(isInProcess /\ emitted' # None) => ActionsEvaluated']_vars

====
